---- MODULE Spec2Model ----
(***************************************************************************)
(* Token lifecycle of SecureTimedExamAccess: issuance, validation,         *)
(* invalidation and cleanup of ExamAccessToken rows by concurrent request  *)
(* handlers over a row-locking transactional store.                        *)
(* Time is counted in minutes.                                             *)
(***************************************************************************)
EXTENDS Integers, Sequences, FiniteSets, TLC

VARIABLES
    store,      \* committed rows of the ExamAccessToken table
    nextId,     \* next value of the table's auto-increment primary key
    now,        \* timezone.now(), in minutes
    pc,         \* position of each request handler
    call,       \* operation and arguments of each handler's current request
    obj,        \* model instance a handler holds in memory
    held,       \* id of the row a handler has locked FOR UPDATE (0: none)
    response,   \* the response a handler has just returned: request, result, instance
    grants,     \* successful validation responses sent, per token row id
    exams,      \* rows of the Exam table, by id
    users       \* rows of the User table, by id

vars == <<store, nextId, now, pc, call, obj, held, response, grants, exams, users>>

----------------------------------------------------------------------------
(* Bounds of the model *)

MaxTime == 2
MaxId == 2
\* the --batch-size the cleanup command is run with
BatchSize == 1

(* Program constants *)

\* an upper limit of validity that lets 1441 minutes through
MaxValidMinutesOffByOne == 1440 + 1

MaxValidMinutes == 1440
MinutesPerDay == 1440

\* GenerateTokenSerializer.valid_minutes: min_value and max_value
SerializerMinMinutes == 1
SerializerMaxMinutes == 1440

Procs == {1, 2}
Ids == 1..MaxId

----------------------------------------------------------------------------
(* Registry: the rows the Exam and User tables hold at the start *)

ExamTable ==
    (1 :> [title |-> "E1", start_time |-> 1, end_time |-> 3])

UserTable ==
    (1 :> [first_name |-> <<"T">>, last_name |-> <<"S">>,
           username |-> <<"u", "1">>, email |-> "s1@x"]) @@
    (2 :> [first_name |-> <<>>, last_name |-> <<>>,
           username |-> <<"u", "2">>, email |-> "s2@x"])

Exams == DOMAIN exams
Students == DOMAIN users

\* identifiers a caller may present: an existing one and a missing one
ExamIds == {1, 9}
StudentIds == {1, 9}

\* valid_minutes a caller may present
MinuteInputs == {-5, 0, MaxValidMinutes, MaxValidMinutes + 1}

----------------------------------------------------------------------------
(* Strings are sequences of characters *)

TokenAlphabet == {"a", "b"}

RECURSIVE SeqsOfLen(_, _)
SeqsOfLen(S, n) ==
    IF n = 0 THEN {<<>>}
    ELSE {<<c>> \o t : c \in S, t \in SeqsOfLen(S, n - 1)}

\* the strings generate_secure_token can return
GeneratedTokens == SeqsOfLen(TokenAlphabet, 1)

RECURSIVE LStrip(_)
LStrip(s) ==
    IF s # <<>> /\ Head(s) = " " THEN LStrip(Tail(s)) ELSE s

RECURSIVE RStrip(_)
RStrip(s) ==
    IF s # <<>> /\ s[Len(s)] = " " THEN RStrip(SubSeq(s, 1, Len(s) - 1)) ELSE s

\* a strip that removes nothing
NoStrip(s) == s

Strip(s) == RStrip(LStrip(s))

\* token strings a caller may present to the validation endpoint
TokenInputs ==
    GeneratedTokens
    \cup {<<" ">> \o t \o <<" ">> : t \in GeneratedTokens}
    \cup {<<" ">>}

----------------------------------------------------------------------------
(* Rows and results *)

NoTime == -1
NoObj == [id |-> 0]
NoToken == <<>>
NoData == [none |-> TRUE]

NewRow(i, e, s, t, vf, vu, ca) ==
    [id |-> i, exam |-> e, student |-> s, token |-> t, is_used |-> FALSE,
     valid_from |-> vf, valid_until |-> vu, created_at |-> ca,
     used_at |-> NoTime]

Failure(msg, code) ==
    [success |-> FALSE, error |-> msg, status_code |-> code,
     token |-> NoToken, valid_until |-> NoTime,
     exam |-> NoData, student |-> NoData, count |-> 0]

NoResult == Failure("", 0)

NoCall ==
    [op |-> "none", exam_id |-> 0, student_id |-> 0, valid_minutes |-> 0,
     regenerate |-> FALSE, token |-> NoToken, token_id |-> 0, days_old |-> 0,
     cutoff_date |-> 0, batch_size |-> 0, batch_ids |-> {}, total_deleted |-> 0]

----------------------------------------------------------------------------
(* The store: lookups, row locks, constraints *)

RowsOfPair(st, e, s) == {r \in st : r.exam = e /\ r.student = s}
\* a lookup that also finds a row whose token is contained in the string
RowsOfTokenContained(st, t) ==
    {r \in st : \E i \in 0..(Len(t) - Len(r.token)) :
                    SubSeq(t, i + 1, i + Len(r.token)) = r.token}

\* filter(token=t): exact match
RowsOfToken(st, t) == {r \in st : r.token = t}
RowsOfId(st, i) == {r \in st : r.id = i}

\* QuerySet.first() under Meta.ordering = ['-created_at']: NoObj when none
First(rows) ==
    IF rows = {} THEN NoObj
    ELSE CHOOSE r \in rows : \A q \in rows : r.created_at >= q.created_at

\* a store whose select_for_update takes no row lock
NeverLocked(p, i) == FALSE

\* select_for_update / UPDATE / DELETE wait while another transaction holds the row
LockedByOther(p, i) == i # 0 /\ \E q \in Procs \ {p} : held[q] = i

\* a clean that accepts every window
CleanAnyWindow(o) == TRUE

\* ExamAccessToken.clean
CleanOK(o) == o.valid_until > o.valid_from

\* the table without unique_together on (exam, student)
UniqueWithoutPair(st, o) ==
    /\ RowsOfId(st, o.id) = {}
    /\ RowsOfToken(st, o.token) = {}

\* the table without unique=True on token
UniqueWithoutToken(st, o) ==
    /\ RowsOfId(st, o.id) = {}
    /\ RowsOfPair(st, o.exam, o.student) = {}

\* the table's constraints: primary key, token unique, (exam, student) unique
UniqueOK(st, o) ==
    /\ RowsOfId(st, o.id) = {}
    /\ RowsOfToken(st, o.token) = {}
    /\ RowsOfPair(st, o.exam, o.student) = {}

\* a save whose UPDATE has no primary-key filter: every row takes the
\* instance's is_used and used_at
SaveEveryRow(st, o, t) ==
    [ok |-> TRUE, obj |-> o,
     store |-> {[r EXCEPT !.is_used = o.is_used, !.used_at = o.used_at] : r \in st}]

\* a save that writes created_at again on every UPDATE (auto_now)
SaveRestampsCreated(st, o, t) ==
    LET others == st \ RowsOfId(st, o.id)
        written == [o EXCEPT !.created_at = t]
    IN IF CleanOK(o) /\ UniqueOK(others, written)
       THEN [ok |-> TRUE, store |-> others \cup {written}, obj |-> written]
       ELSE [ok |-> FALSE, store |-> st, obj |-> o]

\* ExamAccessToken.save at instant t of an instance that has a primary key:
\* clean, then UPDATE of every field by primary key, and INSERT when no row
\* was updated; the INSERT sets created_at (auto_now_add).
\* ok = FALSE stands for the exception raised (ValidationError, IntegrityError).
ModelSave(st, o, t) ==
    LET others == st \ RowsOfId(st, o.id)
        written == IF RowsOfId(st, o.id) # {} THEN o ELSE [o EXCEPT !.created_at = t]
    IN IF CleanOK(o) /\ UniqueOK(others, written)
       THEN [ok |-> TRUE, store |-> others \cup {written}, obj |-> written]
       ELSE [ok |-> FALSE, store |-> st, obj |-> o]

\* ExamAccessToken.objects.create: save(force_insert=True) of a new instance
ModelCreate(st, o) ==
    IF CleanOK(o) /\ UniqueOK(st, o)
    THEN [ok |-> TRUE, store |-> st \cup {o}]
    ELSE [ok |-> FALSE, store |-> st]

----------------------------------------------------------------------------
NoResponse == [call |-> NoCall, result |-> NoResult, obj |-> NoObj]

Init ==
    /\ store = {}
    /\ nextId = 1
    /\ now = 0
    /\ pc = [p \in Procs |-> "idle"]
    /\ call = [p \in Procs |-> NoCall]
    /\ obj = [p \in Procs |-> NoObj]
    /\ held = [p \in Procs |-> 0]
    /\ response = NoResponse
    /\ grants = [i \in Ids |-> 0]
    /\ exams = ExamTable
    /\ users = UserTable

\* an answer that leaves the handler's row lock in place
ReturnKeepsLock(p, c, res, o) ==
    /\ pc' = [pc EXCEPT ![p] = "idle"]
    /\ call' = [call EXCEPT ![p] = NoCall]
    /\ obj' = [obj EXCEPT ![p] = NoObj]
    /\ held' = held
    /\ response' = [call |-> c, result |-> res, obj |-> o]

\* a handler answers request c with res: its transaction is over, its row
\* lock released, its locals gone
Return(p, c, res, o) ==
    /\ pc' = [pc EXCEPT ![p] = "idle"]
    /\ call' = [call EXCEPT ![p] = NoCall]
    /\ obj' = [obj EXCEPT ![p] = NoObj]
    /\ held' = [held EXCEPT ![p] = 0]
    /\ response' = [call |-> c, result |-> res, obj |-> o]

\* a handler moves on to position l holding instance o and row lock h
Goto(p, l, c, o, h) ==
    /\ pc' = [pc EXCEPT ![p] = l]
    /\ call' = [call EXCEPT ![p] = c]
    /\ obj' = [obj EXCEPT ![p] = o]
    /\ held' = [held EXCEPT ![p] = h]
    /\ response' = NoResponse

\* timezone.now() advances
Tick ==
    /\ now < MaxTime
    /\ now' = now + 1
    /\ response' = NoResponse
    /\ UNCHANGED <<store, nextId, pc, call, obj, held, grants, exams, users>>

----------------------------------------------------------------------------
(* ExamTokenService.generate_exam_token *)

IssueSuccess(o) ==
    [success |-> TRUE, error |-> "", status_code |-> 201,
     token |-> o.token, valid_until |-> o.valid_until,
     exam |-> NoData, student |-> NoData, count |-> 0]

GenerateRequest(e, s, m, regen) ==
    [NoCall EXCEPT !.op = "generate", !.exam_id = e, !.student_id = s,
                   !.valid_minutes = m, !.regenerate = regen]

\* a duplicate check that takes a consumed row for no row
IsDuplicateUnusedOnly(existing_token, regen) ==
    existing_token # NoObj /\ ~regen /\ ~existing_token.is_used

\* the duplicate check on the row select_for_update returned
IsDuplicate(existing_token, regen) == existing_token # NoObj /\ ~regen

\* an issuance that looks up the exam and the student before it checks
\* valid_minutes
GenerateChecksLookupFirst(p, e, s, m, regen) ==
    LET c == GenerateRequest(e, s, m, regen)
        existing_token == First(RowsOfPair(store, e, s))
    IN IF e \notin Exams
       THEN Return(p, c, Failure("Invalid exam or student", 400), NoObj)
       ELSE IF s \notin Students
       THEN Return(p, c, Failure("Invalid exam or student", 400), NoObj)
       ELSE IF m <= 0
       THEN Return(p, c, Failure("Invalid input (e.g., negative valid_minutes)", 400), NoObj)
       ELSE IF m > MaxValidMinutes
       THEN Return(p, c, Failure("Maximum allowed validity is 1440 minutes (24 hours)", 400), NoObj)
       ELSE /\ ~LockedByOther(p, existing_token.id)
            /\ IF IsDuplicate(existing_token, regen)
               THEN Return(p, c, Failure("Token already exists for this student and exam", 400), existing_token)
               ELSE Goto(p, "generate_create", c,
                         IF existing_token # NoObj
                         THEN [existing_token EXCEPT !.is_used = TRUE]
                         ELSE NoObj,
                         existing_token.id)

\* input validation, the lookups of the exam and of the student, then inside
\* transaction.atomic the select_for_update of the pair's row, the duplicate
\* check, and on regenerate the marking of the previous row
GenerateChecks(p, e, s, m, regen) ==
    LET c == GenerateRequest(e, s, m, regen)
        existing_token == First(RowsOfPair(store, e, s))
    IN IF m <= 0
       THEN Return(p, c, Failure("Invalid input (e.g., negative valid_minutes)", 400), NoObj)
       ELSE IF m > MaxValidMinutes
       THEN Return(p, c, Failure("Maximum allowed validity is 1440 minutes (24 hours)", 400), NoObj)
       ELSE IF e \notin Exams
       THEN Return(p, c, Failure("Invalid exam or student", 400), NoObj)
       ELSE IF s \notin Students
       THEN Return(p, c, Failure("Invalid exam or student", 400), NoObj)
       ELSE /\ ~LockedByOther(p, existing_token.id)
            /\ IF IsDuplicate(existing_token, regen)
               THEN Return(p, c, Failure("Token already exists for this student and exam", 400), existing_token)
               ELSE Goto(p, "generate_create", c,
                         IF existing_token # NoObj
                         THEN [existing_token EXCEPT !.is_used = TRUE]
                         ELSE NoObj,
                         existing_token.id)

\* a request for a token arrives at an idle handler, which runs the checks
GenerateCall(p, e, s, m, regen) ==
    /\ pc[p] = "idle"
    /\ GenerateChecks(p, e, s, m, regen)
    /\ UNCHANGED <<store, nextId, now, grants, exams, users>>

\* a transaction whose writes stay when an exception ends it
NoRollback(before, written) == written

\* transaction.atomic left by an exception: the store is as it was before
\* the block, whatever the block had written
Rollback(before, written) == before

\* existing_token.save(), objects.create with a generated token, commit;
\* any exception rolls the transaction back and is answered with 500
GenerateCreate(p, tok) ==
    /\ pc[p] = "generate_create"
    /\ nextId <= MaxId
    /\ LET saved == IF obj[p] # NoObj THEN ModelSave(store, obj[p], now)
                     ELSE [ok |-> TRUE, store |-> store]
           token_obj == NewRow(nextId, call[p].exam_id, call[p].student_id, tok,
                               now, now + call[p].valid_minutes, now)
           created == ModelCreate(saved.store, token_obj)
       IN IF saved.ok /\ created.ok
          THEN /\ store' = created.store
               /\ nextId' = nextId + 1
               /\ Return(p, call[p], IssueSuccess(token_obj), token_obj)
          ELSE /\ store' = Rollback(store, saved.store)
               /\ UNCHANGED nextId
               /\ Return(p, call[p], Failure("An unexpected error occurred while generating token", 500), NoObj)
    /\ UNCHANGED <<now, grants, exams, users>>

\* the store fails (connection lost, lock timeout) at objects.create, after
\* existing_token.save(): the except branch answers 500
GenerateStoreFault(p) ==
    /\ pc[p] = "generate_create"
    /\ LET saved == IF obj[p] # NoObj THEN ModelSave(store, obj[p], now)
                     ELSE [ok |-> TRUE, store |-> store]
       IN store' = Rollback(store, saved.store)
    /\ Return(p, call[p], Failure("An unexpected error occurred while generating token", 500), NoObj)
    /\ UNCHANGED <<nextId, now, grants, exams, users>>

----------------------------------------------------------------------------
(* views.generate_exam_token, for a caller who is staff *)

\* the request as the view receives it
ApiGenerateRequest(e, s, m, regen) ==
    [GenerateRequest(e, s, m, regen) EXCEPT !.op = "api_generate"]

\* what the view answers before it calls the service: get_object_or_404 on
\* the exam, then the serializer's errors, student_id first; NoResult when
\* the request passes
ViewRejection(e, s, m) ==
    IF e \notin Exams
    THEN Failure("Not found.", 404)
    ELSE IF s \notin Students
    THEN Failure("Invalid exam or student", 400)
    ELSE IF m < SerializerMinMinutes
    THEN Failure("Ensure this value is greater than or equal to 1.", 400)
    ELSE IF m > SerializerMaxMinutes
    THEN Failure("Ensure this value is less than or equal to 1440.", 400)
    ELSE NoResult

\* the view: its own rejections, else the call of the service, whose error
\* and status_code it passes on
GenerateView(p, e, s, m, regen) ==
    IF ViewRejection(e, s, m) # NoResult
    THEN /\ pc[p] = "idle"
         /\ Return(p, ApiGenerateRequest(e, s, m, regen), ViewRejection(e, s, m), NoObj)
         /\ UNCHANGED <<store, nextId, now, grants, exams, users>>
    ELSE GenerateCall(p, e, s, m, regen)

----------------------------------------------------------------------------
(* views.validate_and_access_exam and ExamTokenService.validate_and_use_token *)

\* datetime.isoformat: the text of an instant, not the instant
IsoFormat(t) == <<"iso", t>>

\* a student name without the fallback to the username
StudentNameNoFallback(u) == Strip(u.first_name \o <<" ">> \o u.last_name)

StudentName(u) ==
    LET full == Strip(u.first_name \o <<" ">> \o u.last_name) IN
    IF full # <<>> THEN full ELSE u.username

ValidateSuccess(o) ==
    [success |-> TRUE, error |-> "", status_code |-> 200,
     token |-> NoToken, valid_until |-> NoTime,
     exam |-> [title |-> exams[o.exam].title,
               start_time |-> IsoFormat(exams[o.exam].start_time),
               end_time |-> IsoFormat(exams[o.exam].end_time)],
     student |-> [name |-> StudentName(users[o.student]),
                  email |-> users[o.student].email],
     count |-> 0]

ValidateRequest(t) == [NoCall EXCEPT !.op = "validate", !.token = t]

\* the emptiness checks of the view and of the service, then inside
\* transaction.atomic the select_for_update of the row of the stripped token;
\* on a miss the service answers 'Invalid token' and the view goes on to
\* invalidate_token_on_failed_attempt
ValidateLookup(p, t) ==
    LET token_obj == First(RowsOfToken(store, Strip(t))) IN
    IF t = <<>> \/ Strip(t) = <<>>
    THEN Return(p, ValidateRequest(t), Failure("Token is required", 400), NoObj)
    ELSE /\ ~LockedByOther(p, token_obj.id)
         /\ IF token_obj = NoObj
            THEN Goto(p, "failed_attempt_read", ValidateRequest(t), NoObj, 0)
            ELSE Goto(p, "validate_check", ValidateRequest(t), token_obj, token_obj.id)

\* a token is presented to an idle handler, which runs the lookup
ValidateCall(p, t) ==
    /\ pc[p] = "idle"
    /\ ValidateLookup(p, t)
    /\ UNCHANGED <<store, nextId, now, grants, exams, users>>

\* checks that look at the window before they look at is_used
ValidateOutcomeWindowFirst(token_obj, t) ==
    IF t > token_obj.valid_until
    THEN Failure("This access link has expired", 403)
    ELSE IF t < token_obj.valid_from
    THEN Failure("This access link is not yet valid", 403)
    ELSE IF token_obj.is_used
    THEN Failure("Token already used", 403)
    ELSE NoResult

\* checks that let a token through until the instant after valid_until + 1
ValidateOutcomeLateExpiry(token_obj, t) ==
    IF token_obj.is_used
    THEN Failure("Token already used", 403)
    ELSE IF t > token_obj.valid_until + 1
    THEN Failure("This access link has expired", 403)
    ELSE IF t < token_obj.valid_from
    THEN Failure("This access link is not yet valid", 403)
    ELSE NoResult

\* checks that refuse a token at the very instant valid_from
ValidateOutcomeStrictFrom(token_obj, t) ==
    IF token_obj.is_used
    THEN Failure("Token already used", 403)
    ELSE IF t > token_obj.valid_until
    THEN Failure("This access link has expired", 403)
    ELSE IF t <= token_obj.valid_from
    THEN Failure("This access link is not yet valid", 403)
    ELSE NoResult

\* checks that never look at valid_from
ValidateOutcomeNoFrom(token_obj, t) ==
    IF token_obj.is_used
    THEN Failure("Token already used", 403)
    ELSE IF t > token_obj.valid_until
    THEN Failure("This access link has expired", 403)
    ELSE NoResult

\* the checks on the locked row at instant t, in the order of the code:
\* is_used, expired, not yet valid; NoResult when the token passes
ValidateOutcome(token_obj, t) ==
    IF token_obj.is_used
    THEN Failure("Token already used", 403)
    ELSE IF t > token_obj.valid_until
    THEN Failure("This access link has expired", 403)
    ELSE IF t < token_obj.valid_from
    THEN Failure("This access link is not yet valid", 403)
    ELSE NoResult

\* the checks on the locked row, then is_used, used_at, save and commit
ValidateCheck(p) ==
    /\ pc[p] = "validate_check"
    /\ LET token_obj == obj[p]
           refusal == ValidateOutcome(token_obj, now)
           used_obj == [token_obj EXCEPT !.is_used = TRUE, !.used_at = now]
           saved == ModelSave(store, used_obj, now)
       IN IF refusal # NoResult
          THEN /\ Return(p, call[p], refusal, token_obj)
               /\ UNCHANGED <<store, grants>>
          ELSE IF saved.ok
          THEN /\ store' = saved.store
               /\ grants' = [grants EXCEPT ![token_obj.id] = @ + 1]
               /\ Return(p, call[p], ValidateSuccess(used_obj), used_obj)
          ELSE /\ Return(p, call[p], Failure("An unexpected error occurred while validating token", 500), token_obj)
               /\ UNCHANGED <<store, grants>>
    /\ UNCHANGED <<nextId, now, exams, users>>

\* the store fails after token_obj.save(), before the block is left: the
\* except branch answers 500
ValidateStoreFault(p) ==
    /\ pc[p] = "validate_check"
    /\ ValidateOutcome(obj[p], now) = NoResult
    /\ LET used_obj == [obj[p] EXCEPT !.is_used = TRUE, !.used_at = now]
           saved == ModelSave(store, used_obj, now)
       IN store' = Rollback(store, saved.store)
    /\ Return(p, call[p], Failure("An unexpected error occurred while validating token", 500), obj[p])
    /\ UNCHANGED <<nextId, now, grants, exams, users>>

\* ExamAccessToken.is_expired
IsExpired(o, t) == t > o.valid_until

\* a view that reports what the defensive invalidation did
FailedAttemptAnswerMasked(result, invalidated) ==
    IF invalidated THEN Failure("Token already used", 403) ELSE result

\* the view's answer after invalidate_token_on_failed_attempt returned
\* invalidated: the error and status_code of the service's result
FailedAttemptAnswer(result, invalidated) == result

\* invalidate_token_on_failed_attempt: the unlocked lookup of the raw token;
\* the view answers with the service's 'Invalid token' whatever it finds
FailedAttemptRead(p) ==
    /\ pc[p] = "failed_attempt_read"
    /\ LET token_obj == First(RowsOfToken(store, call[p].token)) IN
       IF token_obj # NoObj /\ ~token_obj.is_used /\ ~IsExpired(token_obj, now)
       THEN Goto(p, "failed_attempt_save", call[p], token_obj, 0)
       ELSE Return(p, call[p],
                   FailedAttemptAnswer(Failure("Invalid token", 403), FALSE), NoObj)
    /\ UNCHANGED <<store, nextId, now, grants, exams, users>>

\* invalidate_token_on_failed_attempt: is_used, used_at and save; an
\* exception is swallowed
FailedAttemptSave(p) ==
    /\ pc[p] = "failed_attempt_save"
    /\ ~LockedByOther(p, obj[p].id)
    /\ LET used_obj == [obj[p] EXCEPT !.is_used = TRUE, !.used_at = now]
           saved == ModelSave(store, used_obj, now)
       IN /\ store' = saved.store
          /\ Return(p, call[p],
                    FailedAttemptAnswer(Failure("Invalid token", 403), saved.ok),
                    IF saved.ok THEN saved.obj ELSE NoObj)
    /\ UNCHANGED <<nextId, now, grants, exams, users>>

----------------------------------------------------------------------------
(* views.invalidate_token *)

InvalidateRequest(i) == [NoCall EXCEPT !.op = "invalidate", !.token_id = i]

InvalidateSuccess ==
    [success |-> TRUE, error |-> "", status_code |-> 200,
     token |-> NoToken, valid_until |-> NoTime,
     exam |-> NoData, student |-> NoData, count |-> 0]

\* get_object_or_404 and the is_used check
InvalidateCall(p, i) ==
    /\ pc[p] = "idle"
    /\ LET token == First(RowsOfId(store, i)) IN
       IF token = NoObj
       THEN Return(p, InvalidateRequest(i), Failure("Not found.", 404), NoObj)
       ELSE IF token.is_used
       THEN Return(p, InvalidateRequest(i), Failure("Token is already used", 400), token)
       ELSE Goto(p, "invalidate_save", InvalidateRequest(i), token, 0)
    /\ UNCHANGED <<store, nextId, now, grants, exams, users>>

\* an invalidation that sets is_used and leaves used_at alone
InvalidatedNoStamp(token, t) == [token EXCEPT !.is_used = TRUE]

\* token.is_used = True; token.used_at = timezone.now()
Invalidated(token, t) == [token EXCEPT !.is_used = TRUE, !.used_at = t]

\* is_used, used_at and save, outside any transaction
InvalidateSave(p) ==
    /\ pc[p] = "invalidate_save"
    /\ ~LockedByOther(p, obj[p].id)
    /\ LET used_obj == Invalidated(obj[p], now)
           saved == ModelSave(store, used_obj, now)
       IN /\ store' = saved.store
          /\ IF saved.ok
             THEN Return(p, call[p], InvalidateSuccess, saved.obj)
             ELSE Return(p, call[p], Failure("Server Error (500)", 500), NoObj)
    /\ UNCHANGED <<nextId, now, grants, exams, users>>

----------------------------------------------------------------------------
(* ExamAccessToken.status and views.exam_tokens_list *)

\* ExamAccessToken.is_not_yet_valid
IsNotYetValid(o, t) == t < o.valid_from

\* a validity that excludes the instant valid_until
IsValidHalfOpen(o, t) == ~o.is_used /\ o.valid_from <= t /\ t < o.valid_until

\* ExamAccessToken.is_valid
IsValid(o, t) == ~o.is_used /\ o.valid_from <= t /\ t <= o.valid_until

\* a status that looks at the window before it looks at is_used
StatusWindowFirst(o, t) ==
    IF IsExpired(o, t) THEN "Expired"
    ELSE IF IsNotYetValid(o, t) THEN "Not Yet Valid"
    ELSE IF o.is_used THEN "Used"
    ELSE "Valid"

\* ExamAccessToken.status
Status(o, t) ==
    IF o.is_used THEN "Used"
    ELSE IF IsExpired(o, t) THEN "Expired"
    ELSE IF IsNotYetValid(o, t) THEN "Not Yet Valid"
    ELSE "Valid"

ListRequest(e) == [NoCall EXCEPT !.op = "tokens_list", !.exam_id = e]

\* the entry of one token in the list
TokenData(o, t) ==
    [id |-> o.id, is_used |-> o.is_used, is_expired |-> IsExpired(o, t),
     is_valid |-> IsValid(o, t), status |-> Status(o, t),
     valid_from |-> o.valid_from, valid_until |-> o.valid_until,
     created_at |-> o.created_at, used_at |-> o.used_at]

ListResult(rows, t) ==
    [success |-> TRUE, error |-> "", status_code |-> 200,
     token |-> NoToken, valid_until |-> NoTime,
     exam |-> NoData, student |-> NoData,
     count |-> Cardinality(rows),
     tokens |-> {TokenData(o, t) : o \in rows}]

\* get_object_or_404 on the exam, then one entry per token of the exam
TokensList(p, e) ==
    /\ pc[p] = "idle"
    /\ IF e \notin Exams
       THEN Return(p, ListRequest(e), Failure("Not found.", 404), NoObj)
       ELSE Return(p, ListRequest(e), ListResult({r \in store : r.exam = e}, now), NoObj)
    /\ UNCHANGED <<store, nextId, now, grants, exams, users>>

----------------------------------------------------------------------------
(* ExamTokenService.cleanup_expired_tokens *)

\* a cutoff that subtracts days_old whatever its sign
CutoffDateSigned(t, days_old) == t - days_old * MinutesPerDay

CutoffDate(t, days_old) ==
    IF days_old > 0 THEN t - days_old * MinutesPerDay ELSE t

\* a filter that spares the rows of used tokens
ExpiredUnusedBefore(st, cutoff_date) ==
    {r \in st : r.valid_until < cutoff_date /\ ~r.is_used}

\* a filter that yields one expired row at a time
ExpiredBeforeOne(st, cutoff_date) ==
    LET expired == {r \in st : r.valid_until < cutoff_date} IN
    IF expired = {} THEN {} ELSE {CHOOSE r \in expired : TRUE}

\* filter(valid_until__lt=cutoff_date)
ExpiredBefore(st, cutoff_date) == {r \in st : r.valid_until < cutoff_date}

CleanupRequest(d) == [NoCall EXCEPT !.op = "cleanup", !.days_old = d]

CleanupResult(n) ==
    [success |-> TRUE, error |-> "", status_code |-> 200,
     token |-> NoToken, valid_until |-> NoTime,
     exam |-> NoData, student |-> NoData, count |-> n]

\* one DELETE of every row with valid_until < cutoff_date
Cleanup(p, days_old) ==
    /\ pc[p] = "idle"
    /\ LET doomed == ExpiredBefore(store, CutoffDate(now, days_old)) IN
       /\ \A r \in doomed : ~LockedByOther(p, r.id)
       /\ store' = store \ doomed
       /\ Return(p, CleanupRequest(days_old), CleanupResult(Cardinality(doomed)), NoObj)
    /\ UNCHANGED <<nextId, now, grants, exams, users>>

----------------------------------------------------------------------------
(* management command cleanup_expired_tokens, run with --force *)

CommandRequest(d) == [NoCall EXCEPT !.op = "cleanup_command", !.days_old = d]

\* the first batch_size rows of a queryset under Meta.ordering = ['-created_at']
FirstRows(rows, batch_size) ==
    {b \in SUBSET rows :
        /\ Cardinality(b) = IF Cardinality(rows) < batch_size
                            THEN Cardinality(rows) ELSE batch_size
        /\ \A r \in b, q \in rows \ b : r.created_at >= q.created_at}

\* the command run with --days d --batch-size b: cutoff_date is computed
\* once; the command ends at once when no row is expired
CommandRun(p, d, b) ==
    /\ pc[p] = "idle"
    /\ LET cutoff_date == IF d > 0 THEN now - d * MinutesPerDay ELSE now
           c == [CommandRequest(d) EXCEPT !.cutoff_date = cutoff_date,
                                          !.batch_size = b]
       IN IF ExpiredBefore(store, cutoff_date) = {}
          THEN Return(p, c, CleanupResult(0), NoObj)
          ELSE Goto(p, "command_select", c, NoObj, 0)
    /\ UNCHANGED <<store, nextId, now, grants, exams, users>>

CommandStart(p, d) == CommandRun(p, d, BatchSize)

\* inside transaction.atomic: the ids of the next batch; break when none
CommandSelect(p) ==
    /\ pc[p] = "command_select"
    /\ \E batch \in FirstRows(ExpiredBefore(store, call[p].cutoff_date), call[p].batch_size) :
          IF batch = {}
          THEN Return(p, call[p], CleanupResult(call[p].total_deleted), NoObj)
          ELSE Goto(p, "command_delete",
                    [call[p] EXCEPT !.batch_ids = {r.id : r \in batch}], NoObj, 0)
    /\ UNCHANGED <<store, nextId, now, grants, exams, users>>

\* filter(id__in=batch_ids).delete() and commit; then the next batch
CommandDelete(p) ==
    /\ pc[p] = "command_delete"
    /\ LET doomed == {r \in store : r.id \in call[p].batch_ids} IN
       /\ \A r \in doomed : ~LockedByOther(p, r.id)
       /\ store' = store \ doomed
       /\ Goto(p, "command_select",
               [call[p] EXCEPT !.batch_ids = {},
                               !.total_deleted = @ + Cardinality(doomed)],
               NoObj, 0)
    /\ UNCHANGED <<nextId, now, grants, exams, users>>

CleanupCommand(p) ==
    \/ \E d \in {0, 1} : CommandStart(p, d)
    \/ CommandSelect(p)
    \/ CommandDelete(p)

----------------------------------------------------------------------------
(* The endpoints a handler p serves, for callers that draw exam ids from EI,
   student ids from SI, valid_minutes from MI and token strings from TI *)
GenerateEndpoint(p, EI, SI, MI) ==
    \/ \E e \in EI, s \in SI, m \in MI, regen \in BOOLEAN :
          GenerateCall(p, e, s, m, regen)
    \/ \E tok \in GeneratedTokens : GenerateCreate(p, tok)

ValidateEndpoint(p, TI) ==
    \/ \E t \in TI : ValidateCall(p, t)
    \/ ValidateCheck(p)
    \/ FailedAttemptRead(p)
    \/ FailedAttemptSave(p)

InvalidateEndpoint(p) ==
    \/ \E i \in Ids : InvalidateCall(p, i)
    \/ InvalidateSave(p)

\* the handlers serve every endpoint for the pair (exam 1, student 1)
Next ==
    \/ Tick
    \/ \E p \in Procs :
          \/ GenerateEndpoint(p, Exams, {1}, {1, 2})
          \/ ValidateEndpoint(p, GeneratedTokens)
          \/ InvalidateEndpoint(p)
          \/ Cleanup(p, 0)

Spec == Init /\ [][Next]_vars

\* the handlers serve every endpoint, handler p issuing for student p
NextPairs ==
    \/ Tick
    \/ \E p \in Procs :
          \/ GenerateEndpoint(p, Exams, {p}, {1})
          \/ ValidateEndpoint(p, GeneratedTokens)
          \/ InvalidateEndpoint(p)
          \/ Cleanup(p, 0)

SpecPairs == Init /\ [][NextPairs]_vars

\* handler 1 serves issuance and validation requests with arbitrary
\* arguments while handler 2 issues tokens for student 2
NextInputs ==
    \/ Tick
    \/ GenerateEndpoint(1, ExamIds, StudentIds, MinuteInputs)
    \/ \E e \in ExamIds, s \in StudentIds, m \in MinuteInputs, regen \in BOOLEAN :
          GenerateView(1, e, s, m, regen)
    \/ ValidateEndpoint(1, TokenInputs)
    \/ GenerateEndpoint(2, Exams, {2}, {1})

SpecInputs == Init /\ [][NextInputs]_vars

\* the pair (exam 1, student 1) over a store that can fail
NextFaults ==
    \/ Next
    \/ \E p \in Procs : GenerateStoreFault(p) \/ ValidateStoreFault(p)

SpecFaults == Init /\ [][NextFaults]_vars

\* Rows the table may hold when the handlers start: they were issued earlier,
\* or written through the admin site, which sets the window freely. Windows
\* are given relative to the first instant, 0.
StoredWindows ==
    {<<0 - MinutesPerDay - 2, 0 - MinutesPerDay - 1>>,
     <<0 - MinutesPerDay - 1, 1 - MinutesPerDay>>,
     <<0, 1>>,
     <<1, 2>>}

\* the windows somebody asked the table to hold; clean refuses the last
WrittenWindows == StoredWindows \cup {<<1, 0>>}

StoredRow(i, s, t, w, used) ==
    [NewRow(i, 1, s, t, w[1], w[2], w[1]) EXCEPT
        !.is_used = used, !.used_at = IF used THEN w[1] ELSE NoTime]

\* the tables that hold at most one row: every row came in through save()
StoredRows(i, s, t) ==
    {{}} \cup {ModelCreate({}, StoredRow(i, s, t, w, used)).store :
                  w \in WrittenWindows, used \in BOOLEAN}

InitStored ==
    /\ store \in StoredRows(1, 1, <<"a">>)
    /\ nextId = 2
    /\ now = 0
    /\ pc = [p \in Procs |-> "idle"]
    /\ call = [p \in Procs |-> NoCall]
    /\ obj = [p \in Procs |-> NoObj]
    /\ held = [p \in Procs |-> 0]
    /\ response = NoResponse
    /\ grants = [i \in Ids |-> 0]
    /\ exams = ExamTable
    /\ users = UserTable

\* validation, invalidation and cleanup over a table that already holds a
\* row of student 1, while handler 2 issues tokens for student 2
NextStored ==
    \/ Tick
    \/ GenerateEndpoint(2, Exams, {2}, {1})
    \/ \E p \in Procs :
          \/ ValidateEndpoint(p, GeneratedTokens)
          \/ InvalidateEndpoint(p)
          \/ \E d \in {0, 1} : Cleanup(p, d)
    \/ CleanupCommand(1)

SpecStored == InitStored /\ [][NextStored]_vars

\* the token list of an exam, read while tokens are issued and invalidated
NextList ==
    \/ Tick
    \/ GenerateEndpoint(2, Exams, {2}, {0, 1})
    \/ \E p \in Procs :
          \/ \E e \in ExamIds : TokensList(p, e)
          \/ InvalidateEndpoint(p)

SpecList == InitStored /\ [][NextList]_vars

\* values of days_old / --days a sweep is run with: negative, zero, positive
SweepDays == {-1, 0, 1}

\* both sweeps, run with every sign of days_old, while handler 2 issues and
\* handler 1 validates
NextSweep ==
    \/ Tick
    \/ GenerateEndpoint(2, Exams, {2}, {1})
    \/ ValidateEndpoint(1, GeneratedTokens)
    \/ \E p \in Procs, d \in SweepDays : Cleanup(p, d)
    \/ \E d \in SweepDays : CommandStart(1, d)
    \/ CommandSelect(1)
    \/ CommandDelete(1)

SpecSweep == InitStored /\ [][NextSweep]_vars

----------------------------------------------------------------------------
(* Requests that wait for a row lock: the handler has accepted the request
   and blocks in select_for_update until the row is free *)

\* handlers that will still draw a primary key
Issuing == {q \in Procs : pc[q] \in {"generate_wait", "generate_create"}}

GenerateArrive(p, e, s, m, regen) ==
    /\ pc[p] = "idle"
    /\ nextId + Cardinality(Issuing) <= MaxId
    /\ Goto(p, "generate_wait", GenerateRequest(e, s, m, regen), NoObj, 0)
    /\ UNCHANGED <<store, nextId, now, grants, exams, users>>

GenerateAcquire(p) ==
    /\ pc[p] = "generate_wait"
    /\ GenerateChecks(p, call[p].exam_id, call[p].student_id,
                      call[p].valid_minutes, call[p].regenerate)
    /\ UNCHANGED <<store, nextId, now, grants, exams, users>>

ValidateArrive(p, t) ==
    /\ pc[p] = "idle"
    /\ Goto(p, "validate_wait", ValidateRequest(t), NoObj, 0)
    /\ UNCHANGED <<store, nextId, now, grants, exams, users>>

ValidateAcquire(p) ==
    /\ pc[p] = "validate_wait"
    /\ ValidateLookup(p, call[p].token)
    /\ UNCHANGED <<store, nextId, now, grants, exams, users>>

\* the steps by which handler p goes on with the request it is serving
HandlerStep(p) ==
    \/ GenerateAcquire(p)
    \/ \E tok \in GeneratedTokens : GenerateCreate(p, tok)
    \/ ValidateAcquire(p)
    \/ ValidateCheck(p)
    \/ FailedAttemptRead(p)
    \/ FailedAttemptSave(p)
    \/ CommandSelect(p)
    \/ CommandDelete(p)

NextLive ==
    \/ Tick
    \/ \E p \in Procs :
          \/ \E regen \in BOOLEAN : GenerateArrive(p, 1, 1, 1, regen)
          \/ ValidateArrive(p, <<"a">>)
          \/ HandlerStep(p)
    \/ \E d \in {0, 1} : CommandStart(2, d)

\* a handler that can go on does go on; a handler blocked on a row lock gets
\* the lock when it is free again and again (fair granting of row locks)
FairLive ==
    \A p \in Procs :
        /\ WF_vars(\E tok \in GeneratedTokens : GenerateCreate(p, tok))
        /\ WF_vars(ValidateCheck(p))
        /\ WF_vars(FailedAttemptRead(p))
        /\ WF_vars(CommandSelect(p))
        /\ SF_vars(GenerateAcquire(p))
        /\ SF_vars(ValidateAcquire(p))
        /\ SF_vars(FailedAttemptSave(p))
        /\ SF_vars(CommandDelete(p))

SpecLive == Init /\ [][NextLive]_vars /\ FairLive

\* values of --batch-size the command is run with
BatchSizes == {0, 1, 2}

\* the batched command on handler 1, run with every batch size, while
\* handler 1 also issues and handler 2 validates
NextBatch ==
    \/ Tick
    \/ GenerateEndpoint(1, Exams, {2}, {1})
    \/ ValidateEndpoint(2, GeneratedTokens)
    \/ \E d \in {0, 1}, b \in BatchSizes : CommandRun(1, d, b)
    \/ CommandSelect(1)
    \/ CommandDelete(1)

\* the command's loop goes on; a Validate that holds a row lock ends its
\* transaction; the batch delete gets its row locks when they are free
FairBatch ==
    /\ WF_vars(CommandSelect(1))
    /\ SF_vars(CommandDelete(1))
    /\ WF_vars(ValidateCheck(2))

SpecBatch == InitStored /\ [][NextBatch]_vars /\ FairBatch

----------------------------------------------------------------------------
(* The error taxonomy of the specification, read off a result *)

ErrorKind(res) ==
    IF res.success THEN "Success"
    ELSE IF res.status_code = 500 THEN "Internal"
    ELSE IF res.error \in {"Invalid input (e.g., negative valid_minutes)",
                           "Maximum allowed validity is 1440 minutes (24 hours)",
                           "Token is required"} THEN "InvalidInput"
    ELSE IF res.error = "Invalid exam or student" THEN "NotFound"
    ELSE IF res.error = "Token already exists for this student and exam" THEN "Conflict"
    ELSE IF res.error = "Invalid token" THEN "Invalid"
    ELSE IF res.error = "Token already used" THEN "AlreadyUsed"
    ELSE IF res.error = "This access link has expired" THEN "Expired"
    ELSE IF res.error = "This access link is not yet valid" THEN "NotYetValid"
    ELSE "Other"

Answered(op) == response.call.op = op
AnsweredNext(op) == response'.call.op = op

\* the step is the return of a request that began in generate_create
CreateReturns(p) == pc[p] = "generate_create" /\ pc'[p] = "idle"

InWindow(o, t) == o.valid_from <= t /\ t <= o.valid_until

----------------------------------------------------------------------------
(* C1: of the Validate calls racing on the token of one stored credential
   exactly one is answered with success: no credential ever has two
   successful validations, a call that holds the row of an unused credential
   inside its window succeeds and leaves it consumed, and a call answered
   AlreadyUsed, Expired or NotYetValid held a row that was, at that instant,
   consumed or outside its window. *)
C1_SingleGrant ==
    /\ [](/\ \A i \in Ids : grants[i] <= 1
          /\ (Answered("validate") /\ response.result.success) =>
                /\ response.obj \in store
                /\ response.obj.is_used /\ response.obj.used_at = now
                /\ InWindow(response.obj, now)
                /\ grants[response.obj.id] = 1
          /\ (Answered("validate") /\ ErrorKind(response.result) = "AlreadyUsed") =>
                response.obj \in store /\ response.obj.is_used
          /\ (Answered("validate")
                /\ ErrorKind(response.result) \in {"Expired", "NotYetValid"}) =>
                /\ response.obj \in store
                /\ ~response.obj.is_used /\ ~InWindow(response.obj, now))
    /\ [][\A p \in Procs :
            (pc[p] = "validate_check" /\ pc'[p] = "idle") =>
                /\ obj[p] \in store
                /\ (~obj[p].is_used /\ InWindow(obj[p], now)) =>
                      /\ response'.result.success
                      /\ grants'[obj[p].id] = 1]_vars

\* a Validate is refused as AlreadyUsed, inside the window, for a row whose
\* one success was granted to another call
C1_Witness ==
    /\ Answered("validate")
    /\ ErrorKind(response.result) = "AlreadyUsed"
    /\ response.obj \in store
    /\ InWindow(response.obj, now)
    /\ grants[response.obj.id] = 1

(* C2: an Issue is answered with success only by an insert into a store that
   holds no credential for the pair, and the insert leaves exactly one; so of
   the Issue calls racing on a pair at most one inserts. *)
C2_OneIssuePerPair ==
    [][(AnsweredNext("generate") /\ response'.result.success) =>
          /\ RowsOfPair(store, response'.call.exam_id, response'.call.student_id) = {}
          /\ RowsOfPair(store', response'.call.exam_id, response'.call.student_id)
                = {response'.obj}
          /\ store' = store \cup {response'.obj}]_vars

\* an Issue has succeeded while another Issue for the same pair is in flight
C2_Witness ==
    /\ Answered("generate") /\ response.result.success
    /\ \E p \in Procs :
          /\ pc[p] = "generate_create"
          /\ call[p].exam_id = response.call.exam_id
          /\ call[p].student_id = response.call.student_id
          /\ ~call[p].regenerate

(* C3: an Issue with regenerate=false that is refused is refused with
   Conflict, never with Internal or another error. *)
C3_LosersSeeConflict ==
    (Answered("generate") /\ ~response.call.regenerate /\ ~response.result.success)
        => ErrorKind(response.result) = "Conflict"

(* C4: the store never holds two credentials of one (exam, student) pair. *)
C4_PairUnique ==
    \A e \in Exams, s \in Students : Cardinality(RowsOfPair(store, e, s)) <= 1

\* an insert for a pair that has a credential has been refused
C4_Witness ==
    /\ Answered("generate")
    /\ ErrorKind(response.result) = "Internal"
    /\ ~response.call.regenerate
    /\ RowsOfPair(store, response.call.exam_id, response.call.student_id) # {}

(* C5: no two credentials in the store have the same token. *)
C5_TokenUnique ==
    \A t \in GeneratedTokens : Cardinality(RowsOfToken(store, t)) <= 1

\* credentials of two pairs are stored and an insert for a pair without a
\* credential has been refused: its token was taken
C5_Witness ==
    \/ /\ Cardinality(store) = 2
       /\ Answered("generate") /\ response.result.success
    \/ /\ Answered("generate")
       /\ ErrorKind(response.result) = "Internal"
       /\ RowsOfPair(store, response.call.exam_id, response.call.student_id) = {}
       /\ store # {}

(* C6: an Issue with an existing exam, an existing student and minutes in
   1..1440, whose pair has no credential when it inserts, succeeds: it adds
   exactly one credential for the pair, unused, never-used, valid from the
   instant of issue for the requested minutes, and returns that credential's
   token and valid_until. *)
C6_IssueSucceeds ==
    [][\A p \in Procs :
          (/\ CreateReturns(p)
           /\ RowsOfPair(store, call[p].exam_id, call[p].student_id) = {}) =>
              /\ response'.result.success
              /\ \E o \in store' :
                    /\ store' = store \cup {o} /\ o \notin store
                    /\ o.exam = call[p].exam_id /\ o.student = call[p].student_id
                    /\ ~o.is_used /\ o.used_at = NoTime
                    /\ o.valid_from = now
                    /\ o.valid_until = o.valid_from + call[p].valid_minutes
                    /\ response'.result.token = o.token
                    /\ response'.result.valid_until = o.valid_until]_vars

(* C7: while a pair's credential is in the store, valid, used or expired, an
   Issue with regenerate=false on the pair never goes on to insert: it is
   answered with Conflict and the store is left as it was. *)
C7_ConflictWhileStored ==
    [][/\ \A p \in Procs :
             (pc[p] = "idle" /\ pc'[p] = "generate_create" /\ ~call'[p].regenerate) =>
                 RowsOfPair(store, call'[p].exam_id, call'[p].student_id) = {}
       /\ (/\ AnsweredNext("generate") /\ pc' = pc
           /\ ~response'.call.regenerate
           /\ response'.call.valid_minutes \in 1..MaxValidMinutes
           /\ response'.call.exam_id \in Exams
           /\ response'.call.student_id \in Students
           /\ RowsOfPair(store, response'.call.exam_id, response'.call.student_id) # {}) =>
              /\ ErrorKind(response'.result) = "Conflict"
              /\ response'.obj \in store
              /\ store' = store]_vars

\* Conflict is answered for a pair whose credential is consumed, and for one
\* whose credential has expired
C7_Witness ==
    /\ Answered("generate")
    /\ ErrorKind(response.result) = "Conflict"
    /\ response.obj \in store
    /\ response.obj.is_used \/ now > response.obj.valid_until

(* C8: an Issue with regenerate=true on a pair that has a credential is
   answered with success and a token that differs from the old one. *)
C8_RegenerateSucceeds ==
    [][\A p \in Procs :
          (CreateReturns(p) /\ call[p].regenerate /\ obj[p] # NoObj) =>
              /\ response'.result.success
              /\ response'.result.token # obj[p].token]_vars

(* C9: after an Issue with regenerate=true on a pair that had a credential,
   the old credential is still stored and is consumed. *)
C9_OldSuperseded ==
    [][\A p \in Procs :
          (CreateReturns(p) /\ call[p].regenerate /\ obj[p] # NoObj) =>
              \E o \in RowsOfId(store', obj[p].id) :
                  o.token = obj[p].token /\ o.is_used]_vars

(* C10: an Issue whose minutes are outside 1..1440 is answered with
   InvalidInput, whatever its exam, student and regenerate arguments, and no
   credential is created or changed. *)
C10_MinutesRange ==
    [][(AnsweredNext("generate") /\ response'.call.valid_minutes \notin 1..1440) =>
          /\ ErrorKind(response'.result) = "InvalidInput"
          /\ response'.result.status_code = 400
          /\ store' = store]_vars

\* 1441 minutes for a missing exam, and 0 minutes with regenerate on a pair
\* that has a credential, have been refused
C10_Witness ==
    /\ Answered("generate")
    /\ ErrorKind(response.result) = "InvalidInput"
    /\ store # {}
    /\ \/ response.call.valid_minutes = 1441 /\ response.call.exam_id \notin Exams
       \/ /\ response.call.valid_minutes = 0 /\ response.call.regenerate
          /\ RowsOfPair(store, response.call.exam_id, response.call.student_id) # {}

(* C11: an Issue for a missing exam is answered with the same message and
   the same status as an Issue for a missing student, at the service and at
   the endpoint, and in both cases the store is left as it was. *)
C11_SameErrorForMissing ==
    [][(/\ response'.call.op \in {"generate", "api_generate"}
        /\ response'.call.valid_minutes \in 1..1440
        /\ response'.call.exam_id \notin Exams
        /\ response'.call.student_id \in Students) =>
          /\ ~response'.result.success
          /\ store' = store
          /\ \A e \in Exams, s \in StudentIds \ Students :
                LET other == IF response'.call.op = "generate"
                             THEN Failure("Invalid exam or student", 400)
                             ELSE ViewRejection(e, s, response'.call.valid_minutes)
                IN /\ response'.result.error = other.error
                   /\ response'.result.status_code = other.status_code]_vars

(* C12: a Validate of the token of a credential that is unused and inside
   its window, as it is right after its Issue, succeeds; in the same step
   the credential becomes used with used_at the validation instant; the
   answer carries the title, start and end of the credential's exam, the
   student's email, and as name the trimmed "first last", or the username
   when first and last name are both empty. *)
C12_RoundTrip ==
    [][\A p \in Procs :
          (/\ pc[p] = "validate_check" /\ pc'[p] = "idle"
           /\ ~obj[p].is_used /\ InWindow(obj[p], now)) =>
              LET e == ExamTable[obj[p].exam]
                  u == UserTable[obj[p].student]
                  res == response'.result
              IN /\ res.success /\ res.status_code = 200
                 /\ response'.call.token = obj[p].token
                 /\ store' = (store \ {obj[p]})
                       \cup {[obj[p] EXCEPT !.is_used = TRUE, !.used_at = now]}
                 /\ res.exam.title = e.title
                 /\ res.exam.start_time = IsoFormat(e.start_time)
                 /\ res.exam.end_time = IsoFormat(e.end_time)
                 /\ res.student.email = u.email
                 /\ res.student.name =
                       IF u.first_name = <<>> /\ u.last_name = <<>>
                       THEN u.username
                       ELSE Strip(u.first_name \o <<" ">> \o u.last_name)]_vars

\* the token of student 2, who has no first or last name, was validated at
\* the instant of its issue
C12_Witness ==
    /\ Answered("validate") /\ response.result.success
    /\ response.obj.student = 2
    /\ response.obj.valid_from = now /\ response.obj.used_at = now
    /\ response.result.student.name = <<"u", "2">>

(* C13: a Validate of the token of a stored credential that is used finds
   that credential, is answered AlreadyUsed whether or not the window has
   closed, never succeeds, and leaves the store as it was. *)
C13_UsedStaysRefused ==
    [][\A p \in Procs :
          /\ (/\ pc[p] = "idle" /\ call'[p].op = "validate"
              /\ \E r \in RowsOfToken(store, Strip(call'[p].token)) : r.is_used) =>
                 /\ pc'[p] = "validate_check"
                 /\ obj'[p] \in RowsOfToken(store, Strip(call'[p].token))
                 /\ store' = store
          /\ (/\ pc[p] = "validate_check" /\ pc'[p] = "idle"
              /\ \E r \in RowsOfId(store, obj[p].id) : r.is_used) =>
                 /\ ErrorKind(response'.result) = "AlreadyUsed"
                 /\ response'.result.status_code = 403
                 /\ store' = store
                 /\ grants' = grants]_vars

\* a credential that was validated successfully once is refused as
\* AlreadyUsed after its window has closed
C13_Witness ==
    /\ Answered("validate")
    /\ ErrorKind(response.result) = "AlreadyUsed"
    /\ response.obj \in store
    /\ grants[response.obj.id] = 1
    /\ now > response.obj.valid_until

(* C14: a Validate of the token of a stored unused credential whose
   valid_until is earlier than the current time finds that credential and
   is answered Expired; the credential stays unused and never-used. *)
C14_ExpiredIsRefused ==
    [][\A p \in Procs :
          /\ (/\ pc[p] = "idle" /\ call'[p].op = "validate"
              /\ \E r \in RowsOfToken(store, Strip(call'[p].token)) :
                    ~r.is_used /\ r.valid_until < now) =>
                 /\ pc'[p] = "validate_check"
                 /\ obj'[p] \in RowsOfToken(store, Strip(call'[p].token))
                 /\ store' = store
          /\ (/\ pc[p] = "validate_check" /\ pc'[p] = "idle"
              /\ \E r \in RowsOfId(store, obj[p].id) :
                    ~r.is_used /\ r.valid_until < now) =>
                 /\ ErrorKind(response'.result) = "Expired"
                 /\ response'.result.status_code = 403
                 /\ store' = store
                 /\ \A r \in RowsOfId(store', obj[p].id) :
                       ~r.is_used /\ r.used_at = NoTime]_vars

\* an unused credential is refused as Expired at the first instant after its
\* valid_until
C14_Witness ==
    /\ Answered("validate")
    /\ ErrorKind(response.result) = "Expired"
    /\ response.obj \in store
    /\ ~response.obj.is_used
    /\ now = response.obj.valid_until + 1

(* C15: a Validate of the token of a stored unused credential whose
   valid_from is later than the current time is answered NotYetValid, never
   with success, and the credential stays unused. *)
C15_NotYetValidIsRefused ==
    [][\A p \in Procs :
          (/\ pc[p] = "validate_check" /\ pc'[p] = "idle"
           /\ \E r \in RowsOfId(store, obj[p].id) :
                 ~r.is_used /\ r.valid_from > now) =>
              /\ ErrorKind(response'.result) = "NotYetValid"
              /\ response'.result.status_code = 403
              /\ store' = store
              /\ grants' = grants
              /\ \A r \in RowsOfId(store', obj[p].id) :
                    ~r.is_used /\ r.used_at = NoTime]_vars

\* a credential whose window opens at the next instant has been refused as
\* NotYetValid
C15_Witness ==
    /\ Answered("validate")
    /\ ErrorKind(response.result) = "NotYetValid"
    /\ response.obj \in store
    /\ ~response.obj.is_used
    /\ response.obj.valid_from = now + 1

(* C16: a Validate of a non-blank string whose trimmed form is the token of
   no stored credential is answered Invalid by the service without a change
   of the store, and the endpoint reports that Invalid error whatever its
   defensive invalidation finds or does. *)
C16_InvalidNotMasked ==
    [][\A p \in Procs :
          /\ (/\ pc[p] = "idle" /\ call'[p].op = "validate"
              /\ RowsOfToken(store, Strip(call'[p].token)) = {}) =>
                 /\ pc'[p] = "failed_attempt_read"
                 /\ store' = store
          /\ (/\ pc[p] \in {"failed_attempt_read", "failed_attempt_save"}
              /\ pc'[p] = "idle") =>
                 /\ response'.call = call[p]
                 /\ ErrorKind(response'.result) = "Invalid"
                 /\ response'.result.status_code = 403]_vars

\* the endpoint has answered Invalid after its defensive invalidation
\* consumed a credential issued in the meantime
C16_Witness ==
    /\ Answered("validate")
    /\ ErrorKind(response.result) = "Invalid"
    /\ response.obj \in store
    /\ response.obj.is_used /\ response.obj.used_at = now
    /\ grants[response.obj.id] = 0

(* C17: a Validate of an empty or all-blank string is answered InvalidInput
   at once, without a lookup and without a change of the store; a Validate
   of a token padded with blanks takes the same course as a Validate of the
   token itself: it finds the same row, and its answer is decided by that
   row and the instant alone. *)
C17_BlankAndPadded ==
    [][/\ (/\ AnsweredNext("validate")
           /\ \A i \in 1..Len(response'.call.token) : response'.call.token[i] = " ") =>
              /\ ErrorKind(response'.result) = "InvalidInput"
              /\ response'.result.status_code = 400
              /\ pc' = pc /\ held' = held /\ obj' = obj
              /\ store' = store
       /\ \A p \in Procs, t \in GeneratedTokens :
             (/\ pc[p] = "idle" /\ call'[p].op = "validate"
              /\ call'[p].token \in {t, <<" ">> \o t \o <<" ">>}) =>
                 /\ obj'[p] = First(RowsOfToken(store, t))
                 /\ held'[p] = obj'[p].id
                 /\ pc'[p] = IF RowsOfToken(store, t) = {}
                             THEN "failed_attempt_read" ELSE "validate_check"
                 /\ store' = store
       /\ \A p \in Procs :
             (pc[p] = "validate_check" /\ pc'[p] = "idle") =>
                 LET used_obj == [obj[p] EXCEPT !.is_used = TRUE, !.used_at = now] IN
                 IF ValidateOutcome(obj[p], now) # NoResult
                 THEN response'.result = ValidateOutcome(obj[p], now) /\ store' = store
                 ELSE /\ response'.result = ValidateSuccess(used_obj)
                      /\ store' = (store \ {obj[p]}) \cup {used_obj}]_vars

\* a token presented with a blank before and after it has been accepted
C17_Witness ==
    /\ Answered("validate") /\ response.result.success
    /\ Len(response.call.token) = 3
    /\ response.call.token[1] = " " /\ response.call.token[3] = " "
    /\ response.obj.token = <<response.call.token[2]>>
    /\ response.obj \in store

(* C18: a Sweep with older_than_days = d >= 0 deletes exactly the
   credentials, used or unused, whose valid_until is earlier than the
   current time less d days, leaves every other credential as it was, and
   returns the number it deleted. *)
C18_SweepDeletesExpired ==
    [][AnsweredNext("cleanup") =>
          LET d == response'.call.days_old
              gone == {r \in store : r.valid_until < now - d * 1440}
          IN /\ d >= 0
             /\ store' = store \ gone
             /\ response'.result.success
             /\ response'.result.count = Cardinality(gone)]_vars

\* a Sweep with d = 1 has deleted the credential that expired more than a
\* day ago and has kept a credential that expired later
C18_Witness ==
    /\ Answered("cleanup")
    /\ response.call.days_old = 1
    /\ response.result.count = 1
    /\ RowsOfId(store, 1) = {}
    /\ \E r \in store : r.valid_until < now

SweepOps == {"cleanup", "cleanup_command"}

\* the cutoff the Sweep that has just been answered worked with
SweptCutoff ==
    IF response.call.op = "cleanup"
    THEN now - response.call.days_old * 1440
    ELSE response.call.cutoff_date

(* C19: right after a Sweep, by the service or by the command, no credential
   is left that this Sweep was to delete; and a Sweep that is started right
   after a Sweep with the same argument, with nothing happening in between
   and the cutoff unchanged, deletes nothing and returns 0 at once. *)
C19_SweepIdempotent ==
    /\ [](response.call.op \in SweepOps =>
             \A r \in store : ~(r.valid_until < SweptCutoff))
    /\ [][(/\ response.call.op \in SweepOps
           /\ SweptCutoff = now - response.call.days_old * 1440) =>
              /\ (/\ response'.call.op \in SweepOps /\ pc' = pc
                  /\ response'.call.days_old = response.call.days_old) =>
                     /\ response'.result.count = 0
                     /\ store' = store
              /\ \A p \in Procs :
                    (/\ pc[p] = "idle" /\ call'[p].op = "cleanup_command"
                     /\ call'[p].days_old = response.call.days_old) =>
                        pc'[p] = "idle"]_vars

\* a Sweep is answered with 0 over a table that an earlier Sweep has emptied
\* of the credential issued since the start
C19_Witness ==
    /\ response.call.op \in SweepOps
    /\ response.result.count = 0
    /\ nextId = 3
    /\ store = {}

(* C20: no step of a Sweep, by the service or by the command, deletes more
   credentials than the batch size. *)
C20_BoundedBatches ==
    [][Cardinality(store \ store') <= BatchSize]_vars

(* C21: every Issue and every Validate ends with an answer to its caller;
   when the store fails inside it the answer is Internal with status 500,
   and the store is then as it was before the call. *)
C21_FailuresAreInternal ==
    [][\A p \in Procs :
          (pc[p] \in {"generate_create", "validate_check"} /\ pc'[p] = "idle") =>
              /\ response'.call = call[p]
              /\ ErrorKind(response'.result) \in
                    {"Success", "Internal", "AlreadyUsed", "Expired", "NotYetValid"}
              /\ ErrorKind(response'.result) = "Internal" =>
                    /\ response'.result.status_code = 500
                    /\ store' = store
                    /\ grants' = grants
              /\ store' # store => response'.result.success]_vars

\* an Issue with regenerate was answered Internal and the credential it had
\* marked used is stored unused
C21_Witness ==
    /\ Answered("generate") /\ response.call.regenerate
    /\ ErrorKind(response.result) = "Internal"
    /\ \E r \in RowsOfPair(store, response.call.exam_id, response.call.student_id) :
          ~r.is_used

(* C22: an Issue whose freshly drawn token is the token of a stored
   credential draws again instead of failing: the step in which an Issue
   makes its first draw does not answer Internal for a token collision. *)
C22_RetryOnCollision ==
    [][\A p \in Procs, tok \in GeneratedTokens :
          (/\ GenerateCreate(p, tok)
           /\ obj[p] = NoObj
           /\ RowsOfPair(store, call[p].exam_id, call[p].student_id) = {}
           /\ RowsOfToken(store, tok) # {}) =>
              ErrorKind(response'.result) # "Internal"]_vars

(* C23: is_used = true is terminal: no step changes a stored credential
   that is used into one that is unused, or changes its used_at, valid_from
   or valid_until. *)
C23_UsedIsTerminal ==
    [][\A r \in store : r.is_used =>
          \A q \in RowsOfId(store', r.id) :
              /\ q.is_used
              /\ q.used_at = r.used_at
              /\ q.valid_from = r.valid_from
              /\ q.valid_until = r.valid_until]_vars

(* C24: in every state of the store a credential's used_at is null exactly
   when its is_used is false, and a used_at that has been set is never set
   again. *)
C24_UsedAtWithIsUsed ==
    /\ [](\A r \in store : (r.used_at = NoTime) <=> ~r.is_used)
    /\ [][\A r \in store : r.used_at # NoTime =>
             \A q \in RowsOfId(store', r.id) : q.used_at = r.used_at]_vars

(* C25: the status reported for a credential is decided by its is_used,
   valid_from, valid_until and the current time alone, in the priority Used,
   Expired (now > valid_until), NotYetValid (now < valid_from), Valid; a
   used credential is reported Used also after it has expired. *)
C25_StatusPriority ==
    Answered("tokens_list") /\ response.result.success =>
        /\ {d.id : d \in response.result.tokens}
              = {r.id : r \in {q \in store : q.exam = response.call.exam_id}}
        /\ \A d \in response.result.tokens :
              \E r \in RowsOfId(store, d.id) :
                 d.status =
                    IF r.is_used THEN "Used"
                    ELSE IF now > r.valid_until THEN "Expired"
                    ELSE IF now < r.valid_from THEN "Not Yet Valid"
                    ELSE "Valid"

\* the list reports Used for a used credential whose window has closed
C25_Witness ==
    /\ Answered("tokens_list") /\ response.result.success
    /\ \E d \in response.result.tokens :
          d.status = "Used" /\ now > d.valid_until

(* C26: every credential in the store, in every reachable state, has
   valid_until > valid_from. *)
C26_WindowOrdered ==
    \A r \in store : r.valid_until > r.valid_from

\* an Issue has just stored a credential whose window is the requested one
C26_Witness ==
    /\ Answered("generate") /\ response.result.success
    /\ response.obj \in store
    /\ response.obj.valid_until = response.obj.valid_from + response.call.valid_minutes
    /\ Cardinality(store) = 2

(* C27: an InvalidateToken that read an unused credential leaves it stored
   with is_used set and used_at stamped and grants no access; a used
   credential stays used, and a Validate that holds its row is answered
   AlreadyUsed and never success; an InvalidateToken that finds the
   credential used is answered "Token is already used" with 400 and changes
   nothing. *)
C27_InvalidateMarksUsed ==
    [][/\ \A p \in Procs :
            /\ (pc[p] = "invalidate_save" /\ pc'[p] = "idle" /\ response'.result.success) =>
                  /\ ~obj[p].is_used
                  /\ \E q \in RowsOfId(store', obj[p].id) : q.is_used /\ q.used_at = now
                  /\ grants' = grants
            /\ (pc[p] = "idle" /\ pc'[p] = "validate_check") => obj'[p] \in store
            /\ (pc[p] = "validate_check" /\ pc'[p] = "idle" /\ obj[p].is_used) =>
                  /\ ErrorKind(response'.result) = "AlreadyUsed"
                  /\ ~response'.result.success
                  /\ store' = store /\ grants' = grants
       /\ \A r \in store : r.is_used => \A q \in RowsOfId(store', r.id) : q.is_used
       /\ (/\ pc' = pc /\ AnsweredNext("invalidate")
           /\ \E r \in RowsOfId(store, response'.call.token_id) : r.is_used) =>
              /\ response'.result = Failure("Token is already used", 400)
              /\ store' = store /\ grants' = grants]_vars

\* an InvalidateToken has just marked used a credential that never granted
\* access
C27_Witness ==
    /\ Answered("invalidate") /\ response.result.success
    /\ response.obj \in store
    /\ response.obj.is_used /\ response.obj.used_at = now
    /\ grants[response.obj.id] = 0

(* C28: when InvalidateToken and Validate race on one unused credential
   inside its window, at most one of them reports success: whichever
   reports success finds the credential still unused at the instant it
   claims the transition, and no access has been granted on a credential
   that InvalidateToken reports invalidated. *)
C28_OneClaimsTransition ==
    [][\A p \in Procs :
          /\ (pc[p] = "invalidate_save" /\ pc'[p] = "idle" /\ response'.result.success) =>
                /\ grants[obj[p].id] = 0
                /\ \A r \in RowsOfId(store, obj[p].id) : ~r.is_used
          /\ (pc[p] = "validate_check" /\ pc'[p] = "idle" /\ response'.result.success) =>
                \A r \in RowsOfId(store, obj[p].id) : ~r.is_used]_vars

(* C29: no step creates, changes or deletes an Exam or User row, and a step
   of a Validate or of an InvalidateToken leaves every credential whose
   token is not the one it works on exactly as it was, creating and
   deleting none. *)
C29_OnlyOwnCredential ==
    [][/\ exams' = exams /\ users' = users
       /\ \A p \in Procs :
             /\ (/\ pc[p] \in {"validate_check", "failed_attempt_read",
                               "failed_attempt_save", "invalidate_save"}
                 /\ pc'[p] # pc[p]) =>
                   LET other(r) == IF obj[p] = NoObj THEN TRUE ELSE r.token # obj[p].token
                   IN /\ \A r \in store : other(r) => r \in store'
                      /\ \A q \in store' : other(q) => q \in store
             /\ (/\ pc[p] = "idle"
                 /\ pc'[p] \in {"validate_check", "failed_attempt_read", "invalidate_save"}) =>
                   store' = store
       /\ (pc' = pc /\ (AnsweredNext("validate") \/ AnsweredNext("invalidate"))) =>
             store' = store]_vars

\* a Validate has just consumed one credential while another credential,
\* with another token, is stored unused
C29_Witness ==
    /\ Answered("validate") /\ response.result.success
    /\ \E r \in store : r.token # response.obj.token /\ ~r.is_used
    /\ exams = ExamTable /\ users = UserTable

(* C30: no step changes the token, exam, student, valid_from, valid_until
   or created_at of a stored credential: a credential that is stored before
   and after a step differs at most in is_used and used_at. *)
C30_OnlyUsedFieldsChange ==
    [][\A r \in store :
          \A q \in RowsOfId(store', r.id) :
              /\ q.token = r.token
              /\ q.exam = r.exam
              /\ q.student = r.student
              /\ q.valid_from = r.valid_from
              /\ q.valid_until = r.valid_until
              /\ q.created_at = r.created_at]_vars

\* a Validate has just saved a credential that was created at an earlier
\* instant: is_used and used_at are new, created_at is the old one
C30_Witness ==
    /\ Answered("validate") /\ response.result.success
    /\ response.obj \in store
    /\ response.obj.is_used
    /\ response.obj.used_at > response.obj.created_at
    /\ response.obj.valid_from = response.obj.created_at

(* C31: Issue evaluates its checks in a fixed order and the first one that
   fails decides the answer: valid_minutes outside 1..1440 gives InvalidInput
   whatever the exam, the student and the pair; then a missing exam or a
   missing student gives NotFound; then a credential stored for the pair
   gives Conflict; an Issue reaches its transaction's write only when all
   of them passed. *)
C31_ChecksInOrder ==
    [][/\ (AnsweredNext("generate") /\ pc' = pc) =>
             LET c == response'.call
                 k == ErrorKind(response'.result)
             IN IF c.valid_minutes \notin 1..1440
                THEN k = "InvalidInput"
                ELSE IF c.exam_id \notin Exams \/ c.student_id \notin Students
                THEN k = "NotFound"
                ELSE /\ k = "Conflict"
                     /\ ~c.regenerate
                     /\ RowsOfPair(store, c.exam_id, c.student_id) # {}
       /\ \A p \in Procs :
             (pc[p] = "idle" /\ pc'[p] = "generate_create") =>
                 /\ call'[p].valid_minutes \in 1..1440
                 /\ call'[p].exam_id \in Exams
                 /\ call'[p].student_id \in Students
                 /\ \/ call'[p].regenerate
                    \/ RowsOfPair(store, call'[p].exam_id, call'[p].student_id) = {}]_vars

\* 1441 minutes without regenerate for a pair that has a credential, and
\* -5 minutes for a missing exam and a missing student, are InvalidInput
C31_Witness ==
    /\ Answered("generate")
    /\ ErrorKind(response.result) = "InvalidInput"
    /\ ~response.call.regenerate
    /\ \/ /\ response.call.valid_minutes = 1441
          /\ RowsOfPair(store, response.call.exam_id, response.call.student_id) # {}
       \/ /\ response.call.valid_minutes = -5
          /\ response.call.exam_id \notin Exams
          /\ response.call.student_id \notin Students

(* C32: the defensive invalidation matches the presented string exactly:
   it changes a credential only after reading a stored credential whose
   token equals the presented string and which is unused and not expired,
   and it leaves every credential with another token as it was, also one
   whose token is contained in the presented string. *)
C32_ExactMatchOnly ==
    [][\A p \in Procs :
          /\ (pc[p] = "failed_attempt_read" /\ pc'[p] = "idle") => store' = store
          /\ (pc[p] = "failed_attempt_read" /\ pc'[p] = "failed_attempt_save") =>
                /\ store' = store
                /\ obj'[p] \in store
                /\ obj'[p].token = call[p].token
                /\ ~obj'[p].is_used
                /\ ~(now > obj'[p].valid_until)
          /\ (pc[p] = "failed_attempt_save" /\ pc'[p] = "idle") =>
                /\ obj[p].token = call[p].token
                /\ \A r \in store : r.token # call[p].token => r \in store'
                /\ \A q \in store' : q.token # call[p].token => q \in store]_vars

\* a padded string was answered Invalid while the credential whose token it
\* contains is stored, still unused
C32_Witness ==
    /\ Answered("validate")
    /\ ErrorKind(response.result) = "Invalid"
    /\ response.call.token # Strip(response.call.token)
    /\ \E r \in RowsOfToken(store, Strip(response.call.token)) : ~r.is_used

(* C33: a Validate that is answered Invalid marks no credential used: the
   steps of its defensive invalidation, the unlocked lookup and the save,
   leave the store as it was under every interleaving with Issue, Validate
   and Sweep. *)
C33_InvalidConsumesNothing ==
    [][\A p \in Procs :
          (/\ pc[p] \in {"failed_attempt_read", "failed_attempt_save"}
           /\ pc'[p] = "idle"
           /\ ErrorKind(response'.result) = "Invalid") =>
              store' = store]_vars

(* C34: no sweep, whatever the sign of its days argument and whatever
   Issue and Validate do meanwhile, deletes a credential whose valid_until
   is not earlier than the current time: a credential that leaves the store
   had valid_until < now, so a credential that is still Valid stays. *)
C34_SweepSparesUnexpired ==
    [][\A r \in store :
          RowsOfId(store', r.id) = {} => r.valid_until < now]_vars

\* a sweep run with a negative days argument has deleted an expired
\* credential and left one that is not expired
C34_Witness ==
    /\ response.call.op \in SweepOps
    /\ response.call.days_old < 0
    /\ response.result.count > 0
    /\ \E r \in store : r.valid_until >= now /\ ~r.is_used

(* C35: a Validate that holds the row of a stored credential succeeds
   exactly when the credential's is_valid() is true at that instant (unused
   and valid_from <= now <= valid_until), and otherwise its error matches
   the credential's derived status: Used gives AlreadyUsed, Expired gives
   Expired, Not Yet Valid gives NotYetValid. *)
C35_ValidateMatchesStatus ==
    [][\A p \in Procs :
          (pc[p] = "validate_check" /\ pc'[p] = "idle") =>
              LET o == obj[p]
                  k == ErrorKind(response'.result)
              IN /\ o \in store
                 /\ response'.result.success <=> IsValid(o, now)
                 /\ IsValid(o, now) <=> Status(o, now) = "Valid"
                 /\ Status(o, now) = "Used" => k = "AlreadyUsed"
                 /\ Status(o, now) = "Expired" => k = "Expired"
                 /\ Status(o, now) = "Not Yet Valid" => k = "NotYetValid"]_vars

\* a Validate has succeeded at the very instant valid_until, after the
\* instant valid_from
C35_Witness ==
    /\ Answered("validate") /\ response.result.success
    /\ response.obj \in store
    /\ now = response.obj.valid_until
    /\ now > response.obj.valid_from

(* C36: concurrent Issue, Validate and Sweep calls never deadlock: in every
   reachable state in which a call is being served some call can take a
   step, a handler holds at most one row lock, and under fair granting of
   row locks every call that was accepted is eventually answered. *)
C36_EveryCallReturns ==
    /\ []((\E p \in Procs : pc[p] # "idle") => ENABLED (\E p \in Procs : HandlerStep(p)))
    /\ [](\A p \in Procs : pc[p] \in {"generate_wait", "validate_wait"} => held[p] = 0)
    /\ \A p \in Procs : (pc[p] # "idle") ~> (pc[p] = "idle")

\* a Validate waits for the row lock another Validate holds
C36_Witness ==
    \E p \in Procs, q \in Procs :
        /\ pc[p] = "validate_wait"
        /\ pc[q] = "validate_check"
        /\ held[q] # 0
        /\ \E r \in RowsOfToken(store, call[p].token) : r.id = held[q]

(* C37: the batched loop of the cleanup command ends for every batch size
   >= 0, whatever Issue and Validate do meanwhile, and when it ends it has
   deleted every credential that matched: none with valid_until earlier
   than its cutoff is left. *)
C37_BatchLoopCompletes ==
    /\ (pc[1] \in {"command_select", "command_delete"}) ~> (pc[1] = "idle")
    /\ [][(pc[1] = "command_select" /\ pc'[1] = "idle") =>
             ExpiredBefore(store', call[1].cutoff_date) = {}]_vars

(* C38: while every stored credential was created by Issue and the clock
   never goes back, no credential has its valid_from in the future and no
   Validate is answered NotYetValid. *)
C38_IssuedNeverNotYetValid ==
    /\ \A r \in store : r.valid_from <= now
    /\ Answered("validate") => ErrorKind(response.result) # "NotYetValid"

\* a Validate has succeeded at the very instant its credential was issued
C38_Witness ==
    /\ Answered("validate") /\ response.result.success
    /\ response.obj \in store
    /\ response.obj.valid_from = now
    /\ response.obj.created_at = now

(* C39: an Issue that is answered with an error leaves the store exactly
   as it was: no step of it has written anything that stays. A step of
   Issue changes the store only together with a success, and then the new
   credential is stored and, on the regenerate path, the old one is marked
   used in the same step: the marking and the insert commit together or
   not at all. *)
C39_FailedIssueWritesNothing ==
    [][/\ (AnsweredNext("generate") /\ ~response'.result.success) =>
             /\ store' = store
             /\ nextId' = nextId
       /\ \A p \in Procs :
             /\ (pc[p] = "idle" /\ pc'[p] = "generate_create") => store' = store
             /\ (pc[p] = "generate_create" /\ pc'[p] = "idle" /\ store' # store) =>
                   /\ response'.result.success
                   /\ response'.obj \in store'
                   /\ response'.obj \notin store
                   /\ obj[p] # NoObj =>
                         \E q \in RowsOfId(store', obj[p].id) : q.is_used]_vars

\* a regenerate Issue was answered with an error at a later instant than
\* the old credential's issuance, and the old credential is stored as it
\* was, unused
C39_Witness ==
    /\ Answered("generate") /\ response.call.regenerate
    /\ ~response.result.success
    /\ response.result.status_code = 500
    /\ \E r \in RowsOfPair(store, response.call.exam_id, response.call.student_id) :
          ~r.is_used /\ r.used_at = NoTime /\ r.valid_from < now

(* C40: a credential that has left the store does not come back: every
   credential that enters the store enters under a primary key that was
   never used before, so a save by an InvalidateToken that read the
   credential before a Sweep deleted it does not re-create it. *)
C40_DeletedStaysDeleted ==
    [][\A q \in store' :
          RowsOfId(store, q.id) = {} => (q.id = nextId /\ nextId' = nextId + 1)]_vars

====
